---- MODULE Spec2Model ----
(***************************************************************************)
(* PortStudy: the adaptive progression engine (ui/menu.py), the game state *)
(* with its checksum-protected window encoding (core/game_state.py) and    *)
(* the primary+backup persistence (core/state_manager.py).                 *)
(***************************************************************************)
EXTENDS Integers, Sequences, FiniteSets, TLC

(***************************************************************************)
(* config/settings.py                                                      *)
(***************************************************************************)

\* None, the entries of the max level's requirement record: no number the
\* other levels use.
None == -1

\* LEVEL_REQUIREMENTS with a level 1 streak of 16 instead of 15.
LEVEL_REQUIREMENTS_Streak16 ==
    <<[accuracy |-> 75, streak |-> 16, window |-> 45],
      [accuracy |-> 80, streak |-> 20, window |-> 90],
      [accuracy |-> 85, streak |-> 30, window |-> 90],
      [accuracy |-> 87, streak |-> 35, window |-> 90],
      [accuracy |-> None, streak |-> None, window |-> None]>>

LEVEL_REQUIREMENTS ==
    <<[accuracy |-> 75, streak |-> 15, window |-> 45],
      [accuracy |-> 80, streak |-> 20, window |-> 90],
      [accuracy |-> 85, streak |-> 30, window |-> 90],
      [accuracy |-> 87, streak |-> 35, window |-> 90],
      [accuracy |-> None, streak |-> None, window |-> None]>>

\* max(LEVEL_REQUIREMENTS.keys())
MAX_LEVEL ==
    CHOOSE k \in DOMAIN LEVEL_REQUIREMENTS :
        \A j \in DOMAIN LEVEL_REQUIREMENTS : j <= k

\* SAVE_INTEGRITY_KEYS["accuracy"] = 0x55AA, ["streak"] = 0xAA55
ACCURACY_KEY == 21930
STREAK_KEY == 43605

\* GameState.FORMAT_VERSION
FORMAT_VERSION == 1

\* deque(maxlen=30) of GameState.__init__
INITIAL_MAXLEN == 30

(***************************************************************************)
(* Bytes, 16-bit words and the checksum (zlib.crc32, low 16 bits, XOR key) *)
(***************************************************************************)

RECURSIVE Xor(_, _)
\* a ^ b on non-negative integers
Xor(a, b) ==
    IF a = 0 THEN b
    ELSE IF b = 0 THEN a
    ELSE (((a % 2) + (b % 2)) % 2) + 2 * Xor(a \div 2, b \div 2)

\* One bit step of the reflected CRC-32 (polynomial 0xEDB88320) on a 32-bit
\* register kept as two 16-bit halves <<hi, lo>>.
CrcShift(c) ==
    LET hi == c[1] \div 2
        lo == ((c[1] % 2) * 32768) + (c[2] \div 2)
    IN  IF c[2] % 2 = 1 THEN <<Xor(hi, 60856), Xor(lo, 33568)>> ELSE <<hi, lo>>

\* The byte table of zlib.crc32.
CrcTable ==
    [n \in 0..255 |->
        CrcShift(CrcShift(CrcShift(CrcShift(
        CrcShift(CrcShift(CrcShift(CrcShift(<<0, n>>))))))))]

\* The register after one more byte has been fed.
CrcByte(c, byte) ==
    LET t == CrcTable[Xor(c[2] % 256, byte)]
    IN  <<Xor(t[1], c[1] \div 256),
          Xor(t[2], ((c[1] % 256) * 256) + (c[2] \div 256))>>

RECURSIVE CrcUpdate(_, _, _, _)
\* The register after the bytes data[lo..hi] have been fed in order: the
\* left half first, then, from the register it leaves, the right half.
CrcUpdate(c, data, lo, hi) ==
    IF lo > hi THEN c
    ELSE IF lo = hi THEN CrcByte(c, data[lo])
    ELSE LET mid == (lo + hi) \div 2
             left == CrcUpdate(c, data, lo, mid)
         IN  IF left[2] >= 0 THEN CrcUpdate(left, data, mid + 1, hi)
             ELSE left

\* Crc16 over the length and separator bytes only.
Crc16_HeaderOnly(data) ==
    65535 - CrcUpdate(<<65535, 65535>>, data, 1,
                      IF Len(data) < 3 THEN Len(data) ELSE 3)[2]

\* zlib.crc32(data) & 0xFFFF
Crc16(data) == 65535 - CrcUpdate(<<65535, 65535>>, data, 1, Len(data))[2]

\* compute_checksum that does not mix in the key.
compute_checksum_NoKey(data, key) == Crc16(data)

\* GameState._compute_checksum
compute_checksum(data, key) == Xor(Crc16(data), key)

\* n.to_bytes(2, 'big')
ToBytes2(n) == <<n \div 256, n % 256>>

\* int.from_bytes(b, 'big') of at most two bytes (b'' gives 0)
FromBytes(b) ==
    IF Len(b) = 0 THEN 0
    ELSE IF Len(b) = 1 THEN b[1]
    ELSE (b[1] * 256) + b[2]

\* Python slice s[a:b] on a sequence, 0-based, clamped to the sequence.
Slice(s, a, b) ==
    LET hi == IF b < Len(s) THEN b ELSE Len(s)
    IN  IF a >= hi THEN <<>> ELSE [i \in 1..(hi - a) |-> s[a + i]]

Pow2(k) == CASE k = 0 -> 1 [] k = 1 -> 2 [] k = 2 -> 4 [] k = 3 -> 8
             [] k = 4 -> 16 [] k = 5 -> 32 [] k = 6 -> 64 [] k = 7 -> 128

\* The bits MSB-first, zero-padded to a byte boundary, as bytes:
\* int(padded_bits, 2).to_bytes((len(padded_bits) + 7) // 8, 'big')
PackBits(w) ==
    LET bit(k) == IF k <= Len(w) /\ w[k] THEN 1 ELSE 0
    IN  [i \in 1..((Len(w) + 7) \div 8) |->
            128 * bit(8 * i - 7) + 64 * bit(8 * i - 6) + 32 * bit(8 * i - 5)
          + 16 * bit(8 * i - 4) + 8 * bit(8 * i - 3) + 4 * bit(8 * i - 2)
          + 2 * bit(8 * i - 1) + bit(8 * i)]

\* AllBits without the zfill: the leading zero bits are dropped.
AllBits_NoZfill(b) ==
    IF Len(b) = 0 THEN <<FALSE>>
    ELSE LET bits == [k \in 1..(8 * Len(b)) |->
                        (b[(k + 7) \div 8] \div Pow2(7 - ((k - 1) % 8))) % 2 = 1]
             ones == {k \in 1..(8 * Len(b)) : bits[k]}
             first == IF ones = {} THEN 8 * Len(b)
                      ELSE CHOOSE k \in ones : \A j \in ones : k <= j
         IN  [k \in 1..(8 * Len(b) - first + 1) |-> bits[first - 1 + k]]

\* bin(int.from_bytes(b, 'big'))[2:].zfill(len(b) * 8), as booleans; the
\* empty byte string gives bin(0)[2:] = "0", one bit.
AllBits(b) ==
    IF Len(b) = 0 THEN <<FALSE>>
    ELSE [k \in 1..(8 * Len(b)) |->
            (b[(k + 7) \div 8] \div Pow2(7 - ((k - 1) % 8))) % 2 = 1]

(***************************************************************************)
(* base64: a string is a sequence of alphabet indices 0..63, 64 being '='  *)
(***************************************************************************)

PAD == 64

\* base64.b64encode of bytes b[i..]: every three bytes give four characters,
\* the last group is filled with zero bits and padded with '='
B64Encode(b, i) ==
    LET n == Len(b) - i + 1
        byte(j) == IF j <= n THEN b[i - 1 + j] ELSE 0
    IN  [k \in 1..(4 * ((n + 2) \div 3)) |->
            LET g == 3 * ((k - 1) \div 4)
            IN  CASE k % 4 = 1 -> byte(g + 1) \div 4
                  [] k % 4 = 2 ->
                        ((byte(g + 1) % 4) * 16) + (byte(g + 2) \div 16)
                  [] k % 4 = 3 ->
                        IF g + 2 > n THEN PAD
                        ELSE ((byte(g + 2) % 16) * 4) + (byte(g + 3) \div 64)
                  [] k % 4 = 0 ->
                        IF g + 3 > n THEN PAD ELSE byte(g + 3) % 64]

\* binascii.a2b_base64 (non-strict), one character: quad is the position in
\* the current group of four, left the bits carried over, pads the pad
\* characters seen in a row, out the bytes produced so far, done is set by
\* the padding that ends the data.
B64Char(st, ch) ==
    IF st.done THEN st
    ELSE IF ch = PAD THEN
        IF st.quad >= 2 /\ st.quad + st.pads + 1 >= 4 THEN
            [st EXCEPT !.done = TRUE]
        ELSE [st EXCEPT !.pads = IF st.quad >= 2 THEN @ + 1 ELSE @]
    ELSE CASE st.quad = 0 ->
                [st EXCEPT !.quad = 1, !.left = ch, !.pads = 0]
           [] st.quad = 1 ->
                [st EXCEPT !.quad = 2, !.left = ch % 16, !.pads = 0,
                           !.out = Append(@, (st.left * 4) + (ch \div 16))]
           [] st.quad = 2 ->
                [st EXCEPT !.quad = 3, !.left = ch % 4, !.pads = 0,
                           !.out = Append(@, (st.left * 16) + (ch \div 4))]
           [] st.quad = 3 ->
                [st EXCEPT !.quad = 0, !.left = 0, !.pads = 0,
                           !.out = Append(@, (st.left * 64) + ch)]

RECURSIVE B64Scan(_, _, _, _)
\* The scanner after the characters s[lo..hi], taken in order: the left
\* half first, then, from the state it leaves, the right half.
B64Scan(st, s, lo, hi) ==
    IF lo > hi THEN st
    ELSE IF lo = hi THEN B64Char(st, s[lo])
    ELSE LET mid == (lo + hi) \div 2
             left == B64Scan(st, s, lo, mid)
         IN  IF left.done THEN left ELSE B64Scan(left, s, mid + 1, hi)

\* The end of binascii.a2b_base64: the bytes, or binascii.Error when the
\* data ends inside a group of four without its padding.
B64Finish(end) ==
    IF end.done \/ end.quad = 0 THEN [ok |-> TRUE, bytes |-> end.out]
    ELSE [ok |-> FALSE, bytes |-> <<>>]

\* base64.b64decode(s): the bytes, or binascii.Error
B64Decode(s) ==
    B64Finish(B64Scan([quad |-> 0, left |-> 0, pads |-> 0, out |-> <<>>,
                       done |-> FALSE], s, 1, Len(s)))

(***************************************************************************)
(* core/game_state.py                                                      *)
(***************************************************************************)

\* A window without a bound.
Deque_Unbounded(items, maxlen) == items

\* A bounded window that keeps the first maxlen items and drops the newest.
Deque_DropNewest(items, maxlen) ==
    IF Len(items) <= maxlen THEN items
    ELSE [i \in 1..maxlen |-> items[i]]

\* deque(items, maxlen=maxlen): the last maxlen items
Deque(items, maxlen) ==
    IF Len(items) <= maxlen THEN items
    ELSE [i \in 1..maxlen |-> items[Len(items) - maxlen + i]]

\* GameState(): a new game state with default values
NewGameState ==
    [current_difficulty |-> 1,
     accuracy_window |-> <<>>,
     maxlen |-> INITIAL_MAXLEN,
     streak_window |-> <<>>]

\* bitfield_to_base64 without the empty case: the empty sequence gets a
\* header and a checksum like any other.
bitfield_to_base64_NoEmptyCase(window_data, key) ==
    LET data_for_checksum ==
            ToBytes2(Len(window_data)) \o <<0>> \o PackBits(window_data)
        checksum == compute_checksum(data_for_checksum, key)
    IN  B64Encode(ToBytes2(checksum) \o data_for_checksum, 1)

\* GameState._bitfield_to_base64
bitfield_to_base64(window_data, key) ==
    IF window_data = <<>> THEN <<>>
    ELSE LET data_for_checksum ==
                 ToBytes2(Len(window_data)) \o <<0>> \o PackBits(window_data)
             checksum == compute_checksum(data_for_checksum, key)
         IN  B64Encode(ToBytes2(checksum) \o data_for_checksum, 1)

\* verify_and_unpack that does not compare the checksums.
verify_and_unpack_NoCheck(dec, key, maxlen) ==
    LET all_bytes == dec.bytes
        length_bytes == Slice(all_bytes, 2, 4)
        bitfield_bytes == Slice(all_bytes, 5, Len(all_bytes))
        length == FromBytes(length_bytes)
        valid_bits == Slice(AllBits(bitfield_bytes), 0, length)
    IN  IF ~dec.ok THEN
            [ok |-> FALSE, value |-> <<>>, error |-> "binascii.Error"]
        ELSE [ok |-> TRUE, value |-> Deque(valid_bits, maxlen), error |-> ""]

\* GameState._base64_to_bitfield after base64.b64decode: dec is what
\* b64decode gave, the bytes or the exception it raised.
verify_and_unpack(dec, key, maxlen) ==
    LET all_bytes == dec.bytes
        checksum_bytes == Slice(all_bytes, 0, 2)
        length_bytes == Slice(all_bytes, 2, 4)
        separator == Slice(all_bytes, 4, 5)
        bitfield_bytes == Slice(all_bytes, 5, Len(all_bytes))
        data_for_checksum == length_bytes \o separator \o bitfield_bytes
        expected_checksum == compute_checksum(data_for_checksum, key)
        actual_checksum == FromBytes(checksum_bytes)
        length == FromBytes(length_bytes)
        valid_bits == Slice(AllBits(bitfield_bytes), 0, length)
    IN  IF ~dec.ok THEN
            [ok |-> FALSE, value |-> <<>>, error |-> "binascii.Error"]
        ELSE IF expected_checksum # actual_checksum THEN
            [ok |-> FALSE, value |-> <<>>, error |-> "ValueError"]
        ELSE [ok |-> TRUE, value |-> Deque(valid_bits, maxlen),
              error |-> ""]

\* GameState._base64_to_bitfield: [ok |-> TRUE, value |-> the deque], or the
\* exception raised
base64_to_bitfield(encoded_data, key, maxlen) ==
    IF encoded_data = <<>> THEN [ok |-> TRUE, value |-> <<>>, error |-> ""]
    ELSE verify_and_unpack(B64Decode(encoded_data), key, maxlen)

\* to_dict that writes an empty streak blob.
to_dict_NoStreak(gs) ==
    [kind |-> "json",
     version |-> <<FORMAT_VERSION>>,
     difficulty |-> gs.current_difficulty,
     accuracy_window |-> bitfield_to_base64(gs.accuracy_window, ACCURACY_KEY),
     streak_window |-> <<>>]

\* GameState.to_dict: the JSON document of a save (the timestamp is
\* informational and never read back). version is a sequence of at most one
\* element: a document may carry no version field.
to_dict(gs) ==
    [kind |-> "json",
     version |-> <<FORMAT_VERSION>>,
     difficulty |-> gs.current_difficulty,
     accuracy_window |-> bitfield_to_base64(gs.accuracy_window, ACCURACY_KEY),
     streak_window |-> bitfield_to_base64(gs.streak_window, STREAK_KEY)]

\* window_sizes of MenuSystem.__init__: the levels whose window is not None
window_sizes ==
    [level \in {l \in DOMAIN LEVEL_REQUIREMENTS :
                    LEVEL_REQUIREMENTS[l].window # None}
        |-> LEVEL_REQUIREMENTS[level].window]

\* from_dict that takes the largest window for a difficulty window_sizes
\* does not know, instead of raising KeyError.
from_dict_AnyDifficulty(data) ==
    LET version == IF data.version = <<>> THEN 1 ELSE data.version[1]
        difficulty == data.difficulty
        acc == base64_to_bitfield(data.accuracy_window, ACCURACY_KEY, 90)
        str == base64_to_bitfield(data.streak_window, STREAK_KEY, 90)
        failed(e) == [ok |-> FALSE, state |-> NewGameState, error |-> e]
    IN  IF version # FORMAT_VERSION THEN failed("ValueError")
        ELSE IF ~acc.ok THEN failed(acc.error)
        ELSE IF ~str.ok THEN failed(str.error)
        ELSE [ok |-> TRUE,
              state |-> [current_difficulty |-> difficulty,
                         accuracy_window |-> acc.value,
                         maxlen |-> 90,
                         streak_window |-> str.value],
              error |-> ""]

\* GameState.from_dict: [ok |-> TRUE, state |-> the GameState], or the
\* exception raised
from_dict(data) ==
    LET version == IF data.version = <<>> THEN 1 ELSE data.version[1]
        difficulty == data.difficulty
        size_key == IF difficulty = MAX_LEVEL THEN difficulty - 1
                    ELSE difficulty
        window_size == window_sizes[size_key]
        acc == base64_to_bitfield(data.accuracy_window, ACCURACY_KEY,
                                  window_size)
        str == base64_to_bitfield(data.streak_window, STREAK_KEY, window_size)
        failed(e) == [ok |-> FALSE, state |-> NewGameState, error |-> e]
    IN  IF version # FORMAT_VERSION THEN failed("ValueError")
        ELSE IF size_key \notin DOMAIN window_sizes THEN failed("KeyError")
        ELSE IF ~acc.ok THEN failed(acc.error)
        ELSE IF ~str.ok THEN failed(str.error)
        ELSE [ok |-> TRUE,
              state |-> [current_difficulty |-> difficulty,
                         accuracy_window |-> acc.value,
                         maxlen |-> window_size,
                         streak_window |-> str.value],
              error |-> ""]

(***************************************************************************)
(* ui/menu.py: the progression engine                                      *)
(***************************************************************************)

\* sum(1 for q in window if q)
Correct(window) == Cardinality({i \in 1..Len(window) : window[i]})

\* (correct / len(window)) * 100 >= threshold. The float comparison agrees
\* with this integer one for every window of at most 90 entries and every
\* threshold of LEVEL_REQUIREMENTS.
AccuracyAtLeast(window, threshold) ==
    Correct(window) * 100 >= threshold * Len(window)

\* AccuracyBelow with <= for <.
AccuracyBelow_OrEqual(window, threshold) ==
    Correct(window) * 100 <= threshold * Len(window)

\* (correct / len(window)) * 100 < threshold
AccuracyBelow(window, threshold) ==
    Correct(window) * 100 < threshold * Len(window)

\* UpdateStreak that extends the streak on every answer that keeps the
\* accuracy at the threshold.
UpdateStreak_OnAnyAnswer(streak_window, qualifies, is_correct) ==
    IF qualifies THEN Append(streak_window, TRUE) ELSE <<>>

\* UpdateStreak that extends the streak on every correct answer and never
\* clears it.
UpdateStreak_Ungated(streak_window, qualifies, is_correct) ==
    IF is_correct THEN Append(streak_window, TRUE) ELSE streak_window

\* check_level_progress, "Update streak window"
UpdateStreak(streak_window, qualifies, is_correct) ==
    IF qualifies THEN
        IF is_correct THEN Append(streak_window, TRUE) ELSE streak_window
    ELSE <<>>

\* LevelUpDue with > for >= on the streak.
LevelUpDue_Strict(streak_window, qualifies, level_reqs) ==
    Len(streak_window) > level_reqs.streak /\ qualifies

\* check_level_progress, "Check if requirements are met for level up"
LevelUpDue(streak_window, qualifies, level_reqs) ==
    Len(streak_window) >= level_reqs.streak /\ qualifies

\* check_level_progress, "Set new window size if not max level": the maxlen
\* of the accuracy window after a level up to new_difficulty
LevelUpMaxlen(new_difficulty, old_maxlen) ==
    IF new_difficulty < MAX_LEVEL THEN LEVEL_REQUIREMENTS[new_difficulty].window
    ELSE old_maxlen

\* check_level_progress, "Level up"
LevelUp(gs) ==
    [current_difficulty |-> gs.current_difficulty + 1,
     accuracy_window |-> <<>>,
     maxlen |-> LevelUpMaxlen(gs.current_difficulty + 1, gs.maxlen),
     streak_window |-> <<>>]

\* MenuSystem.check_level_progress: the state it leaves and what it returns
check_level_progress(gs, is_correct) ==
    IF gs.current_difficulty = MAX_LEVEL THEN [state |-> gs, result |-> FALSE]
    ELSE LET window == Deque(Append(gs.accuracy_window, is_correct), gs.maxlen)
             level_reqs == LEVEL_REQUIREMENTS[gs.current_difficulty]
             qualifies == AccuracyAtLeast(window, level_reqs.accuracy)
             streak == UpdateStreak(gs.streak_window, qualifies, is_correct)
         IN  IF window = <<>> THEN
                 [state |-> [gs EXCEPT !.accuracy_window = window],
                  result |-> FALSE]
             ELSE IF LevelUpDue(streak, qualifies, level_reqs) THEN
                 [state |-> LevelUp(gs), result |-> TRUE]
             ELSE
                 [state |-> [gs EXCEPT !.accuracy_window = window,
                                       !.streak_window = streak],
                  result |-> FALSE]

\* min_samples without the third of the capacity.
min_samples_Five(maxlen) == 5

\* check_difficulty_regression: max(5, maxlen // 3)
min_samples(maxlen) == IF maxlen \div 3 > 5 THEN maxlen \div 3 ELSE 5

\* check_difficulty_regression: recent_accuracy <
\* LEVEL_REQUIREMENTS[current_difficulty - 1]["accuracy"] - 10
RegressionDue(gs) ==
    AccuracyBelow(gs.accuracy_window,
                  LEVEL_REQUIREMENTS[gs.current_difficulty - 1].accuracy - 10)

\* check_difficulty_regression, "Reset windows for new level"
LevelDown(gs) ==
    [current_difficulty |-> gs.current_difficulty - 1,
     accuracy_window |-> <<>>,
     maxlen |-> LEVEL_REQUIREMENTS[gs.current_difficulty - 1].window,
     streak_window |-> <<>>]

\* check_difficulty_regression that lowers every difficulty above 1 without
\* looking at the window.
check_difficulty_regression_Unguarded(gs) ==
    IF gs.current_difficulty <= 1 THEN [state |-> gs, result |-> FALSE]
    ELSE [state |-> LevelDown(gs), result |-> TRUE]

\* MenuSystem.check_difficulty_regression
check_difficulty_regression(gs) ==
    IF gs.current_difficulty <= 1 THEN [state |-> gs, result |-> FALSE]
    ELSE IF gs.accuracy_window = <<>> THEN [state |-> gs, result |-> FALSE]
    ELSE IF Len(gs.accuracy_window) < min_samples(gs.maxlen) THEN
        [state |-> gs, result |-> FALSE]
    ELSE IF RegressionDue(gs) THEN [state |-> LevelDown(gs), result |-> TRUE]
    ELSE [state |-> gs, result |-> FALSE]

\* process_answer that runs the level-down check after every answer.
process_answer_RegressionOnAll(gs, is_correct) ==
    check_difficulty_regression(check_level_progress(gs, is_correct).state).state

\* process_answer without the call of check_difficulty_regression.
process_answer_NoRegression(gs, is_correct) ==
    check_level_progress(gs, is_correct).state

\* MenuSystem._process_answer: the game state after the answer
process_answer(gs, is_correct) ==
    IF is_correct THEN check_level_progress(gs, TRUE).state
    ELSE check_difficulty_regression(check_level_progress(gs, FALSE).state).state

(***************************************************************************)
(* core/state_manager.py                                                   *)
(***************************************************************************)

\* A path that does not exist.
Missing ==
    [kind |-> "missing", version |-> <<>>, difficulty |-> 0,
     accuracy_window |-> <<>>, streak_window |-> <<>>]

\* A file json.loads cannot parse (truncated or partially written).
Unparseable ==
    [kind |-> "unparseable", version |-> <<>>, difficulty |-> 0,
     accuracy_window |-> <<>>, streak_window |-> <<>>]

\* StateManager._try_load_file: state is None (found = FALSE) when the file
\* does not exist or raised; error tells the two apart.
try_load_file(file) ==
    IF file.kind = "missing" THEN
        [found |-> FALSE, state |-> NewGameState, error |-> FALSE]
    ELSE IF file.kind = "unparseable" THEN
        [found |-> FALSE, state |-> NewGameState, error |-> TRUE]
    ELSE LET r == from_dict(file)
         IN  [found |-> r.ok, state |-> r.state, error |-> ~r.ok]

\* load_state that never tries the backup.
load_state_NoFallback(primary, backup) == try_load_file(primary)

\* StateManager.load_state up to "if state: return state": the backup is
\* tried when the primary gave an error.
load_state(primary, backup) ==
    LET first == try_load_file(primary)
    IN  IF first.error THEN try_load_file(backup) ELSE first

(***************************************************************************)
(* The program: MenuSystem.__init__ loads, main_menu and practice_mode run *)
(* questions, every exit path saves.                                       *)
(***************************************************************************)

VARIABLES
    pc,             \* where the single thread is
    game_state,     \* MenuSystem.game_state
    state_file,     \* the content of game_state.json
    backup_file,    \* the content of game_state.backup.json
    save_ret,       \* where control goes when save_state returns
    is_correct,     \* the outcome of the last question processed
    questions,      \* questions processed in this run of the program
    io_failures,    \* I/O failures that have hit save_state
    run,            \* correct answers in a row since level 1 with empty
                    \* windows, -1 when not in such a run
    primary_failed, \* load_state did not get a state from the primary
    save_completed, \* save_state has returned True since load_state
    save_result,    \* what the last call of save_state returned
    choice,         \* the last line read by load_state's prompt, by
                    \* main_menu or by _get_user_answer, <<>> when the
                    \* read raised
    dirty,          \* game_state was changed by an answer and save_state
                    \* has not been called since
    restarted,      \* the game state of a second run of the same answers
                    \* in which the program is left and started again
                    \* between questions
    window_data,    \* _bitfield_to_base64: the sequence to encode
    key,            \* _bitfield_to_base64: the type key
    encoded_data,   \* the encoded string, as handed to _base64_to_bitfield
    flipped,        \* the bit of the encoded bytes that was flipped, or -1
    decode_key,     \* _base64_to_bitfield: the type key
    capacity,       \* _base64_to_bitfield: maxlen
    decoded,        \* what _base64_to_bitfield or from_dict gave
    codec_pc        \* the position in the encode/decode sequence

\* The variables of the encode/decode sequence.
codec_vars ==
    <<window_data, key, encoded_data, flipped, decode_key, capacity, decoded,
      codec_pc>>

\* The variables of the running program.
program_vars ==
    <<pc, game_state, state_file, backup_file, save_ret, is_correct,
      questions, io_failures, run, primary_failed, save_completed,
      save_result, choice, dirty, restarted>>

vars == <<program_vars, codec_vars>>

\* Questions one run of the program processes.
MaxQuestions == 2
\* I/O failures one run of the program meets.
MaxIOFailures == 1
\* Questions of a run in which every answer is correct.
MaxRun == 16

\* n copies of b
Rep(b, n) == [i \in 1..n |-> b]

GS(difficulty, window, maxlen, streak) ==
    [current_difficulty |-> difficulty, accuracy_window |-> window,
     maxlen |-> maxlen, streak_window |-> streak]

\* No GameState yet: load_state has not returned.
NoState == GS(0, <<>>, 0, <<>>)

\* Game states earlier sessions reach by play and leave in a save.
PriorStates ==
    { GS(1, Rep(TRUE, 14), 45, Rep(TRUE, 14)),
      GS(1, Rep(FALSE, 10) \o Rep(TRUE, 10), 45, <<>>),
      GS(1, Rep(FALSE, 12) \o Rep(TRUE, 33), 45, <<>>),
      GS(2, Rep(FALSE, 28), 90, <<>>),
      GS(2, Rep(FALSE, 29), 90, <<>>),
      GS(2, Rep(FALSE, 13) \o Rep(TRUE, 26), 90, <<>>),
      GS(2, Rep(TRUE, 19), 90, Rep(TRUE, 19)),
      GS(3, Rep(FALSE, 8) \o Rep(TRUE, 21), 90, <<>>),
      GS(3, Rep(TRUE, 29), 90, Rep(TRUE, 29)),
      GS(4, Rep(FALSE, 7) \o Rep(TRUE, 24), 90, <<>>),
      GS(4, Rep(TRUE, 34), 90, Rep(TRUE, 34)),
      GS(5, <<>>, 90, <<>>) }

\* Saves written by save_state in earlier sessions.
PriorSaves == { to_dict(gs) : gs \in PriorStates }

\* Save files edited or damaged outside the program.
EditedSaves ==
    LET doc == to_dict(GS(1, Rep(TRUE, 14), 45, Rep(TRUE, 14)))
    IN  { [to_dict(GS(4, Rep(FALSE, 30), 90, <<>>)) EXCEPT !.difficulty = 5],
          [to_dict(GS(2, Rep(TRUE, 19), 90, Rep(TRUE, 19)))
               EXCEPT !.difficulty = 1],
          [doc EXCEPT !.version = <<2>>],
          [doc EXCEPT !.version = <<>>],
          [doc EXCEPT !.difficulty = 6],
          [doc EXCEPT !.difficulty = 0],
          [doc EXCEPT !.accuracy_window = doc.streak_window,
                      !.streak_window = doc.accuracy_window],
          [doc EXCEPT !.accuracy_window =
                          SubSeq(doc.accuracy_window, 1,
                                 Len(doc.accuracy_window) - 3)] }

PrimaryFiles == PriorSaves \cup EditedSaves \cup {Missing, Unparseable}

BackupFiles ==
    { Missing, Unparseable,
      to_dict(GS(1, Rep(FALSE, 10) \o Rep(TRUE, 10), 45, <<>>)),
      to_dict(GS(4, Rep(TRUE, 34), 90, Rep(TRUE, 34))) }

\* No call of _base64_to_bitfield or from_dict has returned yet.
NoResult == [ok |-> FALSE, value |-> <<>>, error |-> "none"]

\* The encode/decode sequence is not running.
CodecIdle ==
    /\ window_data = <<>>
    /\ key = ACCURACY_KEY
    /\ encoded_data = <<>>
    /\ flipped = -1
    /\ decode_key = ACCURACY_KEY
    /\ capacity = 0
    /\ decoded = NoResult
    /\ codec_pc = "idle"

Init ==
    /\ pc = "load"
    /\ game_state = NoState
    /\ state_file \in PrimaryFiles
    /\ backup_file \in BackupFiles
    /\ save_ret = "done"
    /\ is_correct = FALSE
    /\ questions = 0
    /\ io_failures = 0
    /\ run = -1
    /\ primary_failed = FALSE
    /\ save_completed = FALSE
    /\ save_result = "none"
    /\ choice = <<>>
    /\ dirty = FALSE
    /\ restarted = NoState
    /\ CodecIdle

\* LoadState that copies the backup over a primary that failed to load.
LoadState_Repairs ==
    LET loaded == load_state(state_file, backup_file)
    IN  /\ pc = "load"
        /\ pc' = IF loaded.found THEN "menu" ELSE "prompt"
        /\ game_state' = IF loaded.found THEN loaded.state ELSE game_state
        /\ primary_failed' = ~try_load_file(state_file).found
        /\ state_file' = IF try_load_file(state_file).error /\ loaded.found
                         THEN backup_file ELSE state_file
        /\ UNCHANGED <<backup_file, save_ret, is_correct, questions,
                       io_failures, run, save_completed, save_result,
                       choice, dirty, codec_vars, restarted>>

\* MenuSystem.__init__: self.game_state = state_manager.load_state(...)
LoadState ==
    LET loaded == load_state(state_file, backup_file)
    IN  /\ pc = "load"
        /\ pc' = IF loaded.found THEN "menu" ELSE "prompt"
        /\ game_state' = IF loaded.found THEN loaded.state ELSE game_state
        /\ primary_failed' = ~try_load_file(state_file).found
        /\ UNCHANGED <<state_file, backup_file, save_ret, is_correct,
                       questions, io_failures, run, save_completed,
                       save_result, choice, dirty, codec_vars, restarted>>

\* str.lower on a line of ASCII character codes
Lower(line) ==
    [i \in 1..Len(line) |->
        IF line[i] \in 65..90 THEN line[i] + 32 ELSE line[i]]

\* Lines typed at "Would you like to start fresh? (y/n)": y, Y, n, N, the
\* empty line, " y", "yes" and q, as character codes.
PromptInputs ==
    { <<121>>, <<89>>, <<110>>, <<78>>, <<>>, <<32, 121>>,
      <<121, 101, 115>>, <<113>> }

\* prompt_outcome that starts fresh on every line other than n.
prompt_outcome_DefaultFresh(line) ==
    IF Lower(line) = <<110>> THEN "exit" ELSE "fresh"

\* load_state, the prompt loop: what one line read leads to
prompt_outcome(line) ==
    IF Lower(line) = <<121>> THEN "fresh"
    ELSE IF Lower(line) = <<110>> THEN "exit"
    ELSE "again"

\* load_state, "Would you like to start fresh?" answered y
PromptFresh ==
    \E line \in PromptInputs :
        /\ pc = "prompt"
        /\ prompt_outcome(line) = "fresh"
        /\ choice' = line
        /\ pc' = "menu"
        /\ game_state' = NewGameState
        /\ UNCHANGED <<state_file, backup_file, save_ret, is_correct,
                       questions, io_failures, run, primary_failed,
                       save_completed, save_result, dirty, codec_vars, restarted>>

\* load_state, "Would you like to start fresh?" answered n: sys.exit(1),
\* which main's "except Exception" does not catch
PromptAbort ==
    \E line \in PromptInputs :
        /\ pc = "prompt"
        /\ prompt_outcome(line) = "exit"
        /\ choice' = line
        /\ pc' = "exit1"
        /\ UNCHANGED <<game_state, state_file, backup_file, save_ret,
                       is_correct, questions, io_failures, run,
                       primary_failed, save_completed, save_result, dirty,
                       codec_vars, restarted>>

\* load_state, "Please enter 'y' or 'n'": the loop asks again
PromptAgain ==
    \E line \in PromptInputs :
        /\ pc = "prompt"
        /\ prompt_outcome(line) = "again"
        /\ choice' = line
        /\ UNCHANGED <<pc, game_state, state_file, backup_file, save_ret,
                       is_correct, questions, io_failures, run,
                       primary_failed, save_completed, save_result, dirty,
                       codec_vars, restarted>>

\* main_menu, choice "1": practice_mode
MenuPractice ==
    /\ pc = "menu"
    /\ pc' = "question"
    /\ choice' = <<49>>
    /\ UNCHANGED <<game_state, state_file, backup_file, save_ret, is_correct,
                   questions, io_failures, run, primary_failed,
                   save_completed, save_result, dirty, codec_vars, restarted>>

\* main_menu, choice "3": break, then save_state and return
MenuExit ==
    /\ pc = "menu"
    /\ pc' = "save_rename"
    /\ save_ret' = "done"
    /\ dirty' = FALSE
    /\ choice' = <<51>>
    /\ UNCHANGED <<game_state, state_file, backup_file, is_correct, questions,
                   io_failures, run, primary_failed, save_completed,
                   save_result, codec_vars, restarted>>

\* main_menu, KeyboardInterrupt inside the try (at input or time.sleep):
\* break, then save_state and return
MenuInterrupt ==
    /\ pc = "menu"
    /\ pc' = "save_rename"
    /\ save_ret' = "done"
    /\ dirty' = FALSE
    /\ choice' = <<>>
    /\ UNCHANGED <<game_state, state_file, backup_file, is_correct, questions,
                   io_failures, run, primary_failed, save_completed,
                   save_result, codec_vars, restarted>>

\* main_menu, an Exception inside the try (EOFError from input, an error of
\* a display call): the handler prints it and sleeps one second
MenuError ==
    /\ pc = "menu"
    /\ pc' = "menu_error"
    /\ choice' = <<>>
    /\ UNCHANGED <<game_state, state_file, backup_file, save_ret, is_correct,
                   questions, io_failures, run, primary_failed,
                   save_completed, save_result, dirty, codec_vars, restarted>>

\* main_menu, "except Exception": time.sleep(1) returns, continue
MenuErrorContinue ==
    /\ pc = "menu_error"
    /\ pc' = "menu"
    /\ UNCHANGED <<game_state, state_file, backup_file, save_ret, is_correct,
                   questions, io_failures, run, primary_failed,
                   save_completed, save_result, choice, dirty, codec_vars, restarted>>

\* main_menu, KeyboardInterrupt during time.sleep(1) of "except Exception":
\* it leaves main_menu, main's "except Exception" does not catch it and the
\* process ends
MenuErrorInterrupt ==
    /\ pc = "menu_error"
    /\ pc' = "killed"
    /\ UNCHANGED <<game_state, state_file, backup_file, save_ret, is_correct,
                   questions, io_failures, run, primary_failed,
                   save_completed, save_result, choice, dirty, codec_vars, restarted>>

\* The run of correct answers after one more answer.
RunAfter(gs, c) ==
    LET base == IF /\ gs.current_difficulty = 1
                   /\ gs.accuracy_window = <<>>
                   /\ gs.streak_window = <<>>
                THEN 0 ELSE run
    IN  IF c /\ base >= 0 /\ base < MaxRun THEN base + 1 ELSE -1

\* Lines typed at "Enter your choice (1-4 or 'q' to quit)": q, Q, 1 and 5,
\* as character codes.
AnswerInputs == { <<113>>, <<81>>, <<49>>, <<53>> }

\* Choices of a multiple-choice question
NumChoices == 4

\* int(user_input) of a line of decimal digits; ValueError on the other
\* lines of AnswerInputs
IsDigits(line) == line # <<>> /\ \A i \in 1..Len(line) : line[i] \in 48..57

RECURSIVE ParseInt(_)
ParseInt(line) ==
    IF line = <<>> THEN 0
    ELSE 10 * ParseInt(SubSeq(line, 1, Len(line) - 1))
             + (line[Len(line)] - 48)

\* answer_outcome that takes only the lower-case q as the sentinel.
answer_outcome_CaseSensitive(line) ==
    IF line = <<113>> THEN "cancel"
    ELSE IF IsDigits(line) /\ ParseInt(line) \in 1..NumChoices THEN "answer"
    ELSE "again"

\* _get_user_answer, one pass of its loop: None for the sentinel, the
\* number for a valid choice, otherwise a message and another pass
answer_outcome(line) ==
    IF Lower(line) = <<113>> THEN "cancel"
    ELSE IF IsDigits(line) /\ ParseInt(line) \in 1..NumChoices THEN "answer"
    ELSE "again"

\* _get_user_answer: "Invalid choice" or "Please enter a valid number", and
\* the prompt is shown again
AnswerRetry ==
    \E line \in AnswerInputs :
        /\ pc = "question"
        /\ answer_outcome(line) = "again"
        /\ choice' = line
        /\ UNCHANGED <<pc, game_state, state_file, backup_file, save_ret,
                       is_correct, questions, io_failures, run,
                       primary_failed, save_completed, save_result, dirty,
                       codec_vars, restarted>>

\* _run_practice_question with an answer, up to _process_answer
AnswerQuestion(c, limit) ==
    /\ pc = "question"
    /\ questions < limit
    /\ \E line \in AnswerInputs :
           answer_outcome(line) = "answer" /\ choice' = line
    /\ is_correct' = c
    /\ game_state' = process_answer(game_state, c)
    /\ questions' = questions + 1
    /\ run' = RunAfter(game_state, c)
    /\ dirty' = (dirty \/ game_state' # game_state)
    /\ pc' = "display"
    /\ UNCHANGED <<state_file, backup_file, save_ret, io_failures,
                   primary_failed, save_completed, save_result, codec_vars, restarted>>

\* _run_practice_question: display_reference_info and display_level_progress
\* return, then save_state is called
DisplayProgress ==
    /\ pc = "display"
    /\ pc' = "save_rename"
    /\ save_ret' = "question"
    /\ dirty' = FALSE
    /\ UNCHANGED <<game_state, state_file, backup_file, is_correct, questions,
                   io_failures, run, primary_failed, save_completed,
                   save_result, choice, codec_vars, restarted>>

\* _run_practice_question: display_reference_info or display_level_progress
\* raises (a port of ports.json without 'common_usage': KeyError); the
\* "except Exception" of practice_mode prints it and waits for Enter
DisplayFails ==
    /\ pc = "display"
    /\ pc' = "practice_error"
    /\ UNCHANGED <<game_state, state_file, backup_file, save_ret, is_correct,
                   questions, io_failures, run, primary_failed,
                   save_completed, save_result, choice, dirty, codec_vars, restarted>>

\* _run_practice_question raises before _process_answer (generate_question
\* fails, or input() at the answer prompt raises EOFError because stdin has
\* ended); the "except Exception" of practice_mode prints it and waits for
\* Enter
QuestionFails ==
    /\ pc = "question"
    /\ pc' = "practice_error"
    /\ choice' = <<>>
    /\ UNCHANGED <<game_state, state_file, backup_file, save_ret, is_correct,
                   questions, io_failures, run, primary_failed,
                   save_completed, save_result, dirty, codec_vars, restarted>>

\* practice_mode, "except Exception": its own input() raises EOFError; the
\* exception leaves practice_mode (the outer handler takes KeyboardInterrupt
\* only) and is caught by the "except Exception" of main_menu
PracticeErrorFails ==
    /\ pc = "practice_error"
    /\ pc' = "menu_error"
    /\ UNCHANGED <<game_state, state_file, backup_file, save_ret, is_correct,
                   questions, io_failures, run, primary_failed,
                   save_completed, save_result, choice, dirty, codec_vars, restarted>>

\* practice_mode, "except Exception": input() returns, continue with the
\* next question
PracticeErrorContinue ==
    /\ pc = "practice_error"
    /\ pc' = "question"
    /\ UNCHANGED <<game_state, state_file, backup_file, save_ret, is_correct,
                   questions, io_failures, run, primary_failed,
                   save_completed, save_result, choice, dirty, codec_vars, restarted>>

\* practice_mode, KeyboardInterrupt at time.sleep(2), at an input of the
\* question or of "Press Enter for next question", or at the input() of
\* "except Exception": the outer handler saves and returns to the menu
PracticeInterrupt ==
    /\ pc \in {"question", "practice_error"}
    /\ pc' = "save_rename"
    /\ save_ret' = "menu"
    /\ dirty' = FALSE
    /\ choice' = <<>>
    /\ UNCHANGED <<game_state, state_file, backup_file, is_correct, questions,
                   io_failures, run, primary_failed, save_completed,
                   save_result, codec_vars, restarted>>

\* _run_practice_question with 'q': KeyboardInterrupt, caught by
\* practice_mode, which saves and returns to the menu
QuitPractice ==
    /\ pc = "question"
    /\ \E line \in AnswerInputs :
           answer_outcome(line) = "cancel" /\ choice' = line
    /\ pc' = "save_rename"
    /\ save_ret' = "menu"
    /\ dirty' = FALSE
    /\ UNCHANGED <<game_state, state_file, backup_file, is_correct, questions,
                   io_failures, run, primary_failed, save_completed,
                   save_result, codec_vars, restarted>>

\* SaveRename that removes the primary and keeps the old backup.
SaveRename_KeepsBackup ==
    /\ pc = "save_rename"
    /\ pc' = "save_write"
    /\ state_file' = Missing
    /\ UNCHANGED <<game_state, backup_file, save_ret, is_correct, questions,
                   io_failures, run, primary_failed, save_completed,
                   save_result, choice, dirty, codec_vars, restarted>>

\* save_state: if self.state_file.exists(): self.state_file.replace(backup)
SaveRename ==
    /\ pc = "save_rename"
    /\ pc' = "save_write"
    /\ backup_file' = IF state_file.kind # "missing" THEN state_file
                      ELSE backup_file
    /\ state_file' = Missing
    /\ UNCHANGED <<game_state, save_ret, is_correct, questions, io_failures,
                   run, primary_failed, save_completed, save_result, choice,
                   dirty, codec_vars, restarted>>

\* SaveRenameFails that returns True.
SaveRenameFails_ReturnsTrue ==
    /\ pc = "save_rename"
    /\ state_file.kind # "missing"
    /\ io_failures < MaxIOFailures
    /\ io_failures' = io_failures + 1
    /\ save_result' = "True"
    /\ pc' = save_ret
    /\ UNCHANGED <<game_state, state_file, backup_file, save_ret, is_correct,
                   questions, run, primary_failed, save_completed, choice,
                   dirty, codec_vars, restarted>>

\* save_state: replace raises; except: return False
SaveRenameFails ==
    /\ pc = "save_rename"
    /\ state_file.kind # "missing"
    /\ io_failures < MaxIOFailures
    /\ io_failures' = io_failures + 1
    /\ save_result' = "False"
    /\ pc' = save_ret
    /\ UNCHANGED <<game_state, state_file, backup_file, save_ret, is_correct,
                   questions, run, primary_failed, save_completed, choice,
                   dirty, codec_vars, restarted>>

\* save_state: json.dump(state_data, f); return True
SaveWrite ==
    /\ pc = "save_write"
    /\ state_file' = to_dict(game_state)
    /\ save_completed' = TRUE
    /\ save_result' = "True"
    /\ pc' = save_ret
    /\ UNCHANGED <<game_state, backup_file, save_ret, is_correct, questions,
                   io_failures, run, primary_failed, choice, dirty,
                   codec_vars, restarted>>

\* save_state: open('w') raises (no file is made) or json.dump raises (a
\* partial file is left); except: return False
SaveWriteFails ==
    /\ pc = "save_write"
    /\ io_failures < MaxIOFailures
    /\ io_failures' = io_failures + 1
    /\ state_file' \in {Missing, Unparseable}
    /\ save_result' = "False"
    /\ pc' = save_ret
    /\ UNCHANGED <<game_state, backup_file, save_ret, is_correct, questions,
                   run, primary_failed, save_completed, choice, dirty,
                   codec_vars, restarted>>

AnswerAny == \E c \in BOOLEAN : AnswerQuestion(c, MaxQuestions)

Next ==
    \/ LoadState
    \/ PromptFresh
    \/ PromptAbort
    \/ PromptAgain
    \/ MenuPractice
    \/ MenuExit
    \/ MenuInterrupt
    \/ MenuError
    \/ MenuErrorContinue
    \/ MenuErrorInterrupt
    \/ AnswerAny
    \/ AnswerRetry
    \/ DisplayProgress
    \/ DisplayFails
    \/ QuestionFails
    \/ PracticeErrorContinue
    \/ PracticeErrorFails
    \/ PracticeInterrupt
    \/ QuitPractice
    \/ SaveRename
    \/ SaveRenameFails
    \/ SaveWrite
    \/ SaveWriteFails

Spec == Init /\ [][Next]_vars

(***************************************************************************)
(* A practice session in which every answer is correct and every save      *)
(* succeeds, started from no save at all or from an earlier session's save.*)
(***************************************************************************)

RunFiles == PriorSaves \cup {Missing, to_dict(GS(1, <<>>, 45, <<>>))}

InitRun ==
    /\ pc = "load"
    /\ game_state = NoState
    /\ state_file \in RunFiles
    /\ backup_file = Missing
    /\ save_ret = "done"
    /\ is_correct = FALSE
    /\ questions = 0
    /\ io_failures = 0
    /\ run = -1
    /\ primary_failed = FALSE
    /\ save_completed = FALSE
    /\ save_result = "none"
    /\ choice = <<>>
    /\ dirty = FALSE
    /\ restarted = NoState
    /\ CodecIdle

AnswerCorrectly == AnswerQuestion(TRUE, MaxRun)

NextInRun ==
    \/ LoadState
    \/ PromptFresh
    \/ MenuPractice
    \/ AnswerCorrectly
    \/ DisplayProgress
    \/ SaveRename
    \/ SaveWrite

SpecRun == InitRun /\ [][NextInRun]_vars

(***************************************************************************)
(* Two runs of the same answers from a fresh state: one stays in memory,   *)
(* the other is saved, left and loaded again between questions, every save *)
(* and every load succeeding.                                              *)
(***************************************************************************)

\* Questions the two runs answer together.
MaxRestartQuestions == 3

RECURSIVE Play(_, _, _, _)
\* The game state after the answers answers[lo..hi] have been processed one
\* by one from gs: the left half first, then, from the state it leaves, the
\* right half.
Play(gs, answers, lo, hi) ==
    IF lo > hi THEN gs
    ELSE IF lo = hi THEN process_answer(gs, answers[lo])
    ELSE LET mid == (lo + hi) \div 2
             left == Play(gs, answers, lo, mid)
         IN  IF left.current_difficulty >= 0
             THEN Play(left, answers, mid + 1, hi)
             ELSE left

\* Answers given from the fresh state before the two runs part: none, 14
\* correct, 34 correct, 29 incorrect, 7 incorrect followed by 22 correct.
EarlierAnswers ==
    { <<>>, Rep(TRUE, 14), Rep(TRUE, 34), Rep(FALSE, 29),
      Rep(FALSE, 7) \o Rep(TRUE, 22) }

InitRestart ==
    /\ pc = "between"
    /\ \E answers \in EarlierAnswers :
           /\ game_state = Play(NewGameState, answers, 1, Len(answers))
           /\ restarted = game_state
    /\ state_file = Missing
    /\ backup_file = Missing
    /\ save_ret = "done"
    /\ is_correct = FALSE
    /\ questions = 0
    /\ io_failures = 0
    /\ run = -1
    /\ primary_failed = FALSE
    /\ save_completed = FALSE
    /\ save_result = "none"
    /\ choice = <<>>
    /\ dirty = FALSE
    /\ CodecIdle

\* _process_answer of the same outcome in both runs
AnswerBoth ==
    /\ pc = "between"
    /\ questions < MaxRestartQuestions
    /\ \E c \in BOOLEAN :
           /\ is_correct' = c
           /\ game_state' = process_answer(game_state, c)
           /\ restarted' = process_answer(restarted, c)
    /\ questions' = questions + 1
    /\ UNCHANGED <<pc, state_file, backup_file, save_ret, io_failures, run,
                   primary_failed, save_completed, save_result, choice,
                   dirty, codec_vars>>

\* The second run is left: save_state, the rename and the write succeeding
RestartSave ==
    /\ pc = "between"
    /\ pc' = "left"
    /\ backup_file' = IF state_file.kind # "missing" THEN state_file
                      ELSE backup_file
    /\ state_file' = to_dict(restarted)
    /\ save_result' = "True"
    /\ UNCHANGED <<game_state, restarted, save_ret, is_correct, questions,
                   io_failures, run, primary_failed, save_completed, choice,
                   dirty, codec_vars>>

\* The second run is started again: MenuSystem.__init__ calls load_state,
\* which returns the state of the primary
RestartLoad ==
    /\ pc = "left"
    /\ load_state(state_file, backup_file).found
    /\ restarted' = load_state(state_file, backup_file).state
    /\ pc' = "between"
    /\ UNCHANGED <<game_state, state_file, backup_file, save_ret, is_correct,
                   questions, io_failures, run, primary_failed,
                   save_completed, save_result, choice, dirty, codec_vars>>

NextRestart ==
    \/ AnswerBoth
    \/ RestartSave
    \/ RestartLoad

SpecRestart == InitRestart /\ [][NextRestart]_vars

(***************************************************************************)
(* The codec on its own: a sequence is encoded with a type key, the        *)
(* encoded bytes may have one bit flipped, and the string is decoded, with *)
(* the same key or the other one, or read back as part of a save record.   *)
(***************************************************************************)

\* Every sequence of at most MaxLen booleans is encoded.
MaxLen == 6

\* All boolean sequences of length 0..n
BoolSeqs(n) == UNION { [1..m -> BOOLEAN] : m \in 0..n }

\* Longer sequences: around the byte boundaries, the window capacities 30,
\* 45 and 90, and 500 entries; all false, all true, a leading or a trailing
\* false, a single true at the end, every third entry true.
LongWindows ==
    { Rep(FALSE, 8), Rep(TRUE, 8), Rep(FALSE, 9), Rep(TRUE, 9),
      <<FALSE>> \o Rep(TRUE, 15), Rep(TRUE, 16) \o <<FALSE>>,
      Rep(FALSE, 30), Rep(FALSE, 44) \o <<TRUE>>,
      Rep(FALSE, 12) \o Rep(TRUE, 33) \o Rep(FALSE, 45),
      Rep(FALSE, 255) \o <<TRUE>>,
      Rep(FALSE, 500), [i \in 1..500 |-> i % 3 = 0] }

Windows == BoolSeqs(MaxLen) \cup LongWindows

\* SAVE_INTEGRITY_KEYS.values()
Keys == {ACCURACY_KEY, STREAK_KEY}

\* The maxlen arguments tried for a sequence: its length, one more, and the
\* largest window of LEVEL_REQUIREMENTS when the sequence fits in it.
Capacities(w) ==
    {Len(w), Len(w) + 1} \cup {c \in {90} : c >= Len(w)}

\* The running program is not part of the encode/decode sequence.
ProgramIdle ==
    /\ pc = "codec"
    /\ game_state = NoState
    /\ state_file = Missing
    /\ backup_file = Missing
    /\ save_ret = "done"
    /\ is_correct = FALSE
    /\ questions = 0
    /\ io_failures = 0
    /\ run = -1
    /\ primary_failed = FALSE
    /\ save_completed = FALSE
    /\ save_result = "none"
    /\ choice = <<>>
    /\ dirty = FALSE
    /\ restarted = NoState

InitCodec ==
    /\ ProgramIdle
    /\ window_data \in Windows
    /\ key \in Keys
    /\ encoded_data = <<>>
    /\ flipped = -1
    /\ decode_key = key
    /\ capacity = 0
    /\ decoded = NoResult
    /\ codec_pc = "encode"

\* _bitfield_to_base64(window_data, key)
Encode ==
    /\ codec_pc = "encode"
    /\ encoded_data' = bitfield_to_base64(window_data, key)
    /\ codec_pc' = "encoded"
    /\ UNCHANGED <<program_vars, window_data, key, flipped, decode_key,
                   capacity, decoded>>

\* The bytes with bit number bit (0 the first bit of the first byte) flipped
FlipBitOf(bytes, bit) ==
    [bytes EXCEPT ![(bit \div 8) + 1] = Xor(@, Pow2(7 - (bit % 8)))]

\* One bit of the bytes behind the encoded string is flipped (the save file
\* is edited or damaged) and the bytes are encoded again.
FlipBit ==
    /\ codec_pc = "encoded"
    /\ encoded_data # <<>>
    /\ LET all_bytes == B64Decode(encoded_data).bytes
       IN  \E bit \in 0..(8 * Len(all_bytes) - 1) :
               /\ flipped' = bit
               /\ encoded_data' = B64Encode(FlipBitOf(all_bytes, bit), 1)
    /\ codec_pc' = "tampered"
    /\ UNCHANGED <<program_vars, window_data, key, decode_key, capacity,
                   decoded>>

\* _base64_to_bitfield(encoded_data, key, maxlen) with the key of the encoding
Decode ==
    /\ codec_pc \in {"encoded", "tampered"}
    /\ \E maxlen \in Capacities(window_data) :
           /\ capacity' = maxlen
           /\ decoded' = base64_to_bitfield(encoded_data, key, maxlen)
    /\ decode_key' = key
    /\ codec_pc' = "decoded"
    /\ UNCHANGED <<program_vars, window_data, key, encoded_data, flipped>>

\* _base64_to_bitfield(encoded_data, key, maxlen) with the other type's key
DecodeOtherKey ==
    /\ codec_pc = "encoded"
    /\ \E other \in Keys \ {key}, maxlen \in Capacities(window_data) :
           /\ decode_key' = other
           /\ capacity' = maxlen
           /\ decoded' = base64_to_bitfield(encoded_data, other, maxlen)
    /\ codec_pc' = "decoded"
    /\ UNCHANGED <<program_vars, window_data, key, encoded_data, flipped>>

\* from_dict of a save record that holds the encoded accuracy window in its
\* streak field and an encoded streak in its accuracy field
LoadSwapped ==
    /\ codec_pc = "encoded"
    /\ key = ACCURACY_KEY
    /\ encoded_data # <<>>
    /\ \E difficulty \in DOMAIN LEVEL_REQUIREMENTS, n \in 1..2 :
           LET data == [kind |-> "json",
                        version |-> <<FORMAT_VERSION>>,
                        difficulty |-> difficulty,
                        accuracy_window |->
                            bitfield_to_base64(Rep(TRUE, n), STREAK_KEY),
                        streak_window |-> encoded_data]
               restored == from_dict(data)
           IN  decoded' = [ok |-> restored.ok,
                           value |-> restored.state.accuracy_window,
                           error |-> restored.error]
    /\ codec_pc' = "loaded"
    /\ UNCHANGED <<program_vars, window_data, key, encoded_data, flipped,
                   decode_key, capacity>>

\* Length, separator and packed-bit bytes of buffers that end early: nothing
\* after the checksum, half a length field, a length field of 1 with no
\* separator, a length field of 1 with no packed bits, length fields of 10
\* and of 500 with one byte of packed bits.
TruncatedPayloads ==
    { <<>>, <<0>>, <<0, 1>>, <<0, 1, 0>>, <<0, 10, 0, 255>>,
      <<1, 244, 0, 165>> }

\* The buffers of an edited or damaged save that end early: the encoded
\* bytes cut after their first n bytes, and the truncated payloads behind
\* the checksum that _compute_checksum gives for them.
TruncatedBuffers(all_bytes, k) ==
    { Slice(all_bytes, 0, n) : n \in 1..(Len(all_bytes) - 1) }
        \cup { ToBytes2(compute_checksum(data, k)) \o data :
                    data \in TruncatedPayloads }

\* _base64_to_bitfield(encoded_data, key, maxlen) on the string of a
\* truncated buffer
DecodeTruncated ==
    /\ codec_pc = "encoded"
    /\ \E buffer \in TruncatedBuffers(B64Decode(encoded_data).bytes, key),
          maxlen \in Capacities(window_data) :
           /\ encoded_data' = B64Encode(buffer, 1)
           /\ capacity' = maxlen
           /\ decoded' = base64_to_bitfield(B64Encode(buffer, 1), key, maxlen)
    /\ decode_key' = key
    /\ codec_pc' = "decoded_truncated"
    /\ UNCHANGED <<program_vars, window_data, key, flipped>>

\* The maxlen arguments below the length of a sequence: 1, half its length,
\* one less than its length, and the window sizes of LEVEL_REQUIREMENTS.
SmallerCapacities(w) ==
    {c \in {1, Len(w) \div 2, Len(w) - 1, 45, 90} : c >= 1 /\ c < Len(w)}

\* _base64_to_bitfield(encoded_data, key, maxlen) with a maxlen below the
\* encoded length
DecodeSmaller ==
    /\ codec_pc = "encoded"
    /\ \E maxlen \in SmallerCapacities(window_data) :
           /\ capacity' = maxlen
           /\ decoded' = base64_to_bitfield(encoded_data, key, maxlen)
    /\ decode_key' = key
    /\ codec_pc' = "decoded_smaller"
    /\ UNCHANGED <<program_vars, window_data, key, encoded_data, flipped>>

NextCodec ==
    \/ DecodeSmaller
    \/ Encode
    \/ FlipBit
    \/ Decode
    \/ DecodeOtherKey
    \/ LoadSwapped
    \/ DecodeTruncated

SpecCodec == InitCodec /\ [][NextCodec]_vars

(***************************************************************************)
(* Properties                                                              *)
(***************************************************************************)

\* A GameState exists: load_state has returned one.
Loaded == pc \notin {"load", "prompt", "exit1"}

\* The step processes an answered question.
Answered == questions' = questions + 1

\* The accuracy window after the answer of the step has been appended.
WindowAfterAppend ==
    IF game_state.current_difficulty = MAX_LEVEL THEN game_state.accuracy_window
    ELSE Deque(Append(game_state.accuracy_window, is_correct'),
               game_state.maxlen)

\* 100 * correct >= percent * length, on a window
AtLeastPercent(w, percent) ==
    Cardinality({i \in 1..Len(w) : w[i]}) * 100 >= percent * Len(w)

\* The length of the streak after the streak update of the step, before the
\* level-up check.
StreakLenAfterUpdate ==
    IF AtLeastPercent(WindowAfterAppend,
                      LEVEL_REQUIREMENTS[game_state.current_difficulty].accuracy)
    THEN Len(game_state.streak_window) + (IF is_correct' THEN 1 ELSE 0)
    ELSE 0

\* C1: in every reachable game state the capacity of accuracy_window is
\* LEVEL_REQUIREMENTS[min(difficulty, MAX_LEVEL - 1)].window.
C1_WindowCapacity ==
    Loaded =>
        game_state.maxlen =
            LEVEL_REQUIREMENTS[IF game_state.current_difficulty < MAX_LEVEL
                               THEN game_state.current_difficulty
                               ELSE MAX_LEVEL - 1].window

\* C2: an answer processed at difficulty L < MAX_LEVEL after which the streak
\* has reached streak_threshold(L) and the accuracy accuracy_threshold(L)
\* leaves difficulty L+1, both windows empty and, if L+1 < MAX_LEVEL, the
\* capacity window(L+1).
C2_LevelUp ==
    [][(/\ Answered
        /\ game_state.current_difficulty < MAX_LEVEL
        /\ StreakLenAfterUpdate >=
               LEVEL_REQUIREMENTS[game_state.current_difficulty].streak
        /\ AtLeastPercent(WindowAfterAppend,
               LEVEL_REQUIREMENTS[game_state.current_difficulty].accuracy))
       => (/\ game_state'.current_difficulty = game_state.current_difficulty + 1
           /\ game_state'.accuracy_window = <<>>
           /\ game_state'.streak_window = <<>>
           /\ (game_state.current_difficulty + 1 < MAX_LEVEL =>
                  game_state'.maxlen =
                      LEVEL_REQUIREMENTS[game_state.current_difficulty + 1].window))
      ]_vars

\* C2 witness: the save of level 2 with a streak of 19 was loaded and one
\* correct answer has levelled up to 3.
C2_Witness ==
    /\ pc = "save_rename"
    /\ questions = 1
    /\ is_correct
    /\ state_file = to_dict(GS(2, Rep(TRUE, 19), 90, Rep(TRUE, 19)))
    /\ game_state = GS(3, <<>>, 90, <<>>)

\* C3: from difficulty 1 with empty windows, consecutive correct answers keep
\* difficulty 1 through the 14th, and after the 15th difficulty is 2, both
\* windows are empty and the capacity is 90.
C3_FifteenCorrect ==
    /\ run \in 1..14 => game_state.current_difficulty = 1
    /\ run = 15 => /\ game_state.current_difficulty = 2
                   /\ game_state.accuracy_window = <<>>
                   /\ game_state.streak_window = <<>>
                   /\ game_state.maxlen = 90

\* C3 witness: the 15th correct answer in a row of a fresh game has been
\* processed.
C3_Witness ==
    /\ run = 15
    /\ questions = 15
    /\ state_file = Missing
    /\ backup_file.kind = "json"
    /\ game_state.current_difficulty = 2

\* 100 * correct < percent * length, on a window
BelowPercent(w, percent) ==
    Cardinality({i \in 1..Len(w) : w[i]}) * 100 < percent * Len(w)

\* The level-down condition on the window of the step: difficulty > 1, at
\* least max(5, capacity/3) outcomes, accuracy below the previous level's
\* threshold minus 10.
LevelDownCondition ==
    /\ game_state.current_difficulty > 1
    /\ Len(WindowAfterAppend) >= 5
    /\ Len(WindowAfterAppend) >= game_state.maxlen \div 3
    /\ BelowPercent(WindowAfterAppend,
           LEVEL_REQUIREMENTS[game_state.current_difficulty - 1].accuracy - 10)

\* C4 as claimed: on every answered question, correct or incorrect, on which
\* no level-up occurred and the level-down condition holds, difficulty is
\* decremented.
C4_Original ==
    [][(/\ Answered
        /\ game_state'.current_difficulty # game_state.current_difficulty + 1
        /\ LevelDownCondition)
       => game_state'.current_difficulty = game_state.current_difficulty - 1
      ]_vars

\* C4 amended: the level-down check is evaluated, after the level-up check,
\* for every incorrectly answered question: with no level-up on it and the
\* level-down condition holding, difficulty is decremented on that question.
\* A correctly answered question never lowers difficulty.
C4_LevelDownOnIncorrect ==
    [][Answered =>
        /\ (/\ ~is_correct'
            /\ game_state'.current_difficulty
                   # game_state.current_difficulty + 1
            /\ LevelDownCondition)
           => game_state'.current_difficulty
                  = game_state.current_difficulty - 1
        /\ is_correct' =>
               game_state'.current_difficulty >= game_state.current_difficulty
      ]_vars

\* C4 witness: the save of level 2 with 29 incorrect outcomes was loaded and
\* a 30th incorrect answer has lowered difficulty to 1.
C4_Witness ==
    /\ pc = "save_rename"
    /\ questions = 1
    /\ ~is_correct
    /\ state_file = to_dict(GS(2, Rep(FALSE, 29), 90, <<>>))
    /\ game_state.current_difficulty = 1

\* C5: a level-down from L leaves difficulty L-1, an empty streak and the
\* capacity window(L-1); an accuracy equal to the threshold minus 10 does not
\* trigger it.
C5_LevelDown ==
    [][Answered =>
        /\ game_state'.current_difficulty < game_state.current_difficulty =>
               /\ game_state'.current_difficulty
                      = game_state.current_difficulty - 1
               /\ game_state'.streak_window = <<>>
               /\ game_state'.maxlen =
                      LEVEL_REQUIREMENTS[game_state.current_difficulty - 1].window
               /\ Len(game_state'.accuracy_window) <= game_state'.maxlen
        /\ (/\ game_state.current_difficulty > 1
            /\ WindowAfterAppend # <<>>
            /\ Cardinality({i \in 1..Len(WindowAfterAppend) :
                               WindowAfterAppend[i]}) * 100
                   = (LEVEL_REQUIREMENTS[game_state.current_difficulty - 1].accuracy
                          - 10) * Len(WindowAfterAppend))
           => game_state'.current_difficulty >= game_state.current_difficulty
      ]_vars

\* C5 witness: at level 2 an incorrect answer made the accuracy 26/40 = 65%
\* and was saved at level 2; the next incorrect answer (26/41) has lowered
\* difficulty to 1 with capacity 45.
C5_Witness ==
    /\ pc = "save_rename"
    /\ questions = 2
    /\ ~is_correct
    /\ state_file = to_dict(GS(2, Rep(FALSE, 13) \o Rep(TRUE, 26) \o <<FALSE>>,
                               90, <<>>))
    /\ game_state = GS(1, <<>>, 45, <<>>)

\* C6: at difficulty L < MAX_LEVEL, if the accuracy after the append is
\* below accuracy_threshold(L) the streak is empty afterwards, whatever the
\* answer; the streak grows only by one, on a correct answer whose
\* post-append accuracy reaches the threshold.
C6_AccuracyGatedStreak ==
    [][(Answered /\ game_state.current_difficulty < MAX_LEVEL) =>
        /\ ~AtLeastPercent(WindowAfterAppend,
               LEVEL_REQUIREMENTS[game_state.current_difficulty].accuracy)
           => game_state'.streak_window = <<>>
        /\ Len(game_state'.streak_window) > Len(game_state.streak_window) =>
               /\ is_correct'
               /\ AtLeastPercent(WindowAfterAppend,
                      LEVEL_REQUIREMENTS[game_state.current_difficulty].accuracy)
               /\ Len(game_state'.streak_window)
                      = Len(game_state.streak_window) + 1
      ]_vars

\* C6 witness: with 10 incorrect of 20 in the window at level 1, a correct
\* answer (11 of 21) has been processed and the streak is empty.
C6_Witness ==
    /\ pc = "save_rename"
    /\ questions = 1
    /\ is_correct
    /\ game_state = GS(1, Rep(FALSE, 10) \o Rep(TRUE, 11), 45, <<>>)

\* C7: once difficulty is MAX_LEVEL, an answered question leaves difficulty,
\* accuracy_window and streak_window unchanged.
C7_MaxLevelTerminal ==
    [][(Answered /\ game_state.current_difficulty = MAX_LEVEL)
       => game_state' = game_state]_vars

\* C8: after a load whose primary failed, the backup that existed is not
\* replaced before a save has completed.
C8_BackupKeptUntilSaved ==
    [][(/\ primary_failed
        /\ ~save_completed
        /\ backup_file.kind # "missing")
       => backup_file' = backup_file]_vars

\* C9: with the primary missing and a valid save in the backup, load does
\* not enter the recovery prompt.
C9_MissingPrimaryFallsBack ==
    pc = "prompt" =>
        ~(state_file.kind = "missing" /\ backup_file \in PriorSaves)

\* C10: when the primary exists but cannot be loaded and the backup is a
\* valid earlier save, load returns the state that save was written from,
\* without prompting.
C10_BackupFallback ==
    [][(/\ pc = "load"
        /\ try_load_file(state_file).error
        /\ backup_file \in PriorSaves)
       => /\ pc' = "menu"
          /\ \E gs \in PriorStates :
                 backup_file = to_dict(gs) /\ game_state' = gs
      ]_vars

\* C10 witness: the primary is unparseable and the state of the backup, level
\* 4 with a streak of 34, has been returned to the menu.
C10_Witness ==
    /\ pc = "menu"
    /\ questions = 0
    /\ state_file = Unparseable
    /\ primary_failed
    /\ game_state = GS(4, Rep(TRUE, 34), 90, Rep(TRUE, 34))

\* The step is the return of save_state to its caller.
SaveReturns ==
    /\ pc \in {"save_rename", "save_write"}
    /\ pc' \notin {"save_rename", "save_write"}

\* C11: save_state never raises on an I/O failure of the rename or of the
\* write: control returns to the caller with False, game_state is what it
\* was and the session goes on; True is returned only when the primary holds
\* the new save.
C11_SaveNeverRaises ==
    [][/\ pc \in {"save_rename", "save_write"} => game_state' = game_state
       /\ SaveReturns =>
             /\ pc' = save_ret
             /\ pc' \in {"question", "menu", "done"}
             /\ save_result' \in {"True", "False"}
             /\ io_failures' > io_failures => save_result' = "False"
             /\ save_result' = "True" => state_file' = to_dict(game_state)
      ]_vars

\* C11 witness: a save failed, the session went on to answer two questions
\* and the save after the second one has succeeded.
C11_Witness ==
    /\ pc = "question"
    /\ questions = 2
    /\ io_failures = 1
    /\ save_result = "True"
    /\ state_file = to_dict(game_state)
    /\ backup_file \in {Missing, Unparseable}

\* The running session has ended: main_menu returned, or an exception left
\* main.
Terminated == pc \in {"done", "killed"}

\* C12: on every exit path of a running session the process ends right
\* after the save_state that main_menu calls with the current game_state
\* has returned.
C12_SaveOnEveryExit ==
    [][(~Terminated /\ Terminated') => (SaveReturns /\ save_ret = "done")]_vars

\* C13: when the next question is presented, save_state has been called
\* since the last answer that changed game_state.
C13_SavedBeforeNextQuestion == pc = "question" => ~dirty

\* C14: a save whose version is not FORMAT_VERSION, or that carries no
\* version, is never accepted by from_dict: load_state gets no state from
\* a primary holding such a record.
C14_VersionRejected ==
    [][(/\ pc = "load"
        /\ state_file.kind = "json"
        /\ state_file.version # <<FORMAT_VERSION>>)
       => primary_failed']_vars

\* C15: at the prompt that follows a load in which neither file gave a
\* state, a line read is answered in exactly one of three ways: y (in either
\* case) returns a fresh state of difficulty 1 with empty windows, n (in
\* either case) ends the process with exit code 1, any other line asks
\* again; nothing has been restored while the prompt is open, and what load
\* returns is the whole state of one of the files or the fresh state.
C15_PromptOutcomes ==
    [][/\ pc = "prompt" =>
             /\ game_state = NoState
             /\ choice' \in {<<121>>, <<89>>} =>
                    /\ pc' = "menu"
                    /\ game_state'.current_difficulty = 1
                    /\ game_state'.accuracy_window = <<>>
                    /\ game_state'.streak_window = <<>>
             /\ choice' \in {<<110>>, <<78>>} =>
                    /\ pc' = "exit1"
                    /\ game_state' = game_state
             /\ choice' \notin {<<121>>, <<89>>, <<110>>, <<78>>} =>
                    /\ pc' = "prompt"
                    /\ game_state' = game_state
       /\ (pc \in {"load", "prompt"} /\ pc' = "menu") =>
             \/ pc = "prompt" /\ game_state' = NewGameState
             \/ \E f \in {state_file, backup_file} :
                    /\ f.kind = "json"
                    /\ from_dict(f).ok
                    /\ game_state' = from_dict(f).state
      ]_vars

\* C15 witness: both files were unparseable and the prompt, answered Y, has
\* returned the fresh state to the menu.
C15_Witness ==
    /\ pc = "menu"
    /\ questions = 0
    /\ choice = <<89>>
    /\ state_file = Unparseable
    /\ backup_file = Unparseable
    /\ game_state = NewGameState

\* C16: load_state writes nothing: from the call of load_state to its
\* return or to the exit at the prompt, on every path, the primary and the
\* backup file keep their contents and their existence.
C16_LoadRepairsNothing ==
    [][(pc = "load" \/ pc = "prompt") =>
           (state_file' = state_file /\ backup_file' = backup_file)]_vars

\* C16 witness: the primary with swapped blobs failed its integrity check,
\* the state of the backup has been returned to the menu, and both files
\* are as they were.
C16_Witness ==
    /\ pc = "menu"
    /\ questions = 0
    /\ primary_failed
    /\ state_file \in EditedSaves
    /\ state_file.accuracy_window =
           bitfield_to_base64(Rep(TRUE, 14), STREAK_KEY)
    /\ backup_file = to_dict(GS(4, Rep(TRUE, 34), 90, Rep(TRUE, 34)))
    /\ game_state = GS(4, Rep(TRUE, 34), 90, Rep(TRUE, 34))

\* The integrity error of _base64_to_bitfield
IntegrityError == [ok |-> FALSE, value |-> <<>>, error |-> "ValueError"]

\* C17: a sequence encoded with a type key and decoded, untouched, with the
\* same key and a capacity of at least its length comes back exactly: same
\* length, same entries, same order.
C17_RoundTrip ==
    (codec_pc = "decoded" /\ flipped = -1 /\ decode_key = key) =>
        decoded = [ok |-> TRUE, value |-> window_data, error |-> ""]

\* C17 witness: 500 entries, every third one true (so the first two are
\* false), have been encoded and decoded with capacity 501.
C17_Witness ==
    /\ codec_pc = "decoded"
    /\ flipped = -1
    /\ decode_key = key
    /\ Len(window_data) = 500
    /\ ~window_data[1] /\ window_data[3]
    /\ capacity = 501
    /\ decoded.ok
    /\ decoded.value = window_data

\* C18: a non-empty sequence encoded with one type key fails the integrity
\* check when decoded with the other key, and a save record whose non-empty
\* accuracy and streak blobs are swapped is rejected by from_dict.
C18_KeySeparation ==
    /\ (/\ codec_pc = "decoded"
        /\ flipped = -1
        /\ decode_key # key
        /\ window_data # <<>>) => decoded = IntegrityError
    /\ codec_pc = "loaded" => (~decoded.ok /\ decoded.error = "ValueError")

\* C18 witness: 45 outcomes encoded with the accuracy key have been decoded
\* with the streak key and the integrity check has failed.
C18_Witness ==
    /\ codec_pc = "decoded"
    /\ flipped = -1
    /\ key = ACCURACY_KEY
    /\ decode_key = STREAK_KEY
    /\ window_data = Rep(FALSE, 44) \o <<TRUE>>
    /\ decoded = IntegrityError

\* C19: with one bit of the two stored checksum bytes flipped, decoding with
\* the key of the encoding fails with the integrity error.
C19_ChecksumBitFlip ==
    (codec_pc = "decoded" /\ flipped \in 0..15) => decoded = IntegrityError

\* C19 witness: the last bit of the checksum bytes of an encoded sequence
\* of 9 entries was flipped and decoding has failed the integrity check.
C19_Witness ==
    /\ codec_pc = "decoded"
    /\ flipped = 15
    /\ window_data = Rep(TRUE, 9)
    /\ decoded = IntegrityError

\* C20: with one bit of the length, separator or packed-bit bytes flipped,
\* decoding with the key of the encoding fails with the integrity error and
\* returns no sequence.
C20_PayloadBitFlip ==
    (codec_pc = "decoded" /\ flipped >= 16) => decoded = IntegrityError

\* C20 witness: the last packed bit of 500 false entries (bit 543 of the 68
\* bytes) was flipped and decoding has failed the integrity check.
C20_Witness ==
    /\ codec_pc = "decoded"
    /\ flipped = 543
    /\ window_data = Rep(FALSE, 500)
    /\ decoded = IntegrityError

BufferTruncated ==
    LET all_bytes == B64Decode(encoded_data).bytes
    IN  \/ Len(all_bytes) < 5
        \/ 8 * (Len(all_bytes) - 5) < FromBytes(Slice(all_bytes, 2, 4))

\* C22: decoding a non-empty string whose buffer is truncated fails and
\* returns no sequence, and a sequence that is returned has exactly
\* min(length field, capacity) entries.
C22_TruncatedRejected ==
    (codec_pc = "decoded_truncated" /\ encoded_data # <<>>) =>
        /\ BufferTruncated => ~decoded.ok
        /\ decoded.ok =>
               LET length == FromBytes(Slice(B64Decode(encoded_data).bytes,
                                             2, 4))
               IN  Len(decoded.value) =
                       IF length < capacity THEN length ELSE capacity

\* C23: once a failure of a practice question has been caught by the
\* handler of the practice loop, the loop goes on to the next question (or
\* is interrupted, which saves): practice mode is not left through the
\* failure, the game state is what it was, difficulty is in 1..MAX_LEVEL
\* and the accuracy window within its capacity.
C23_FailureContinues ==
    [][pc = "practice_error" =>
           (/\ pc' \in {"practice_error", "question", "save_rename"}
            /\ game_state' = game_state
            /\ game_state.current_difficulty \in 1..MAX_LEVEL
            /\ Len(game_state.accuracy_window) <= game_state.maxlen)]_vars

\* C24: save_state rotates the generations. Its first step moves an
\* existing primary, whatever it holds, over the backup and leaves the
\* backup alone when there is no primary; the write comes after it, finds
\* no primary, leaves the backup as the first step made it and, when the
\* save succeeds, leaves the serialization of the saved state in the
\* primary.
C24_GenerationRotation ==
    [][/\ (pc = "save_rename" /\ pc' = "save_write") =>
              /\ backup_file' = IF state_file.kind = "missing"
                                THEN backup_file ELSE state_file
              /\ state_file' = Missing
       /\ pc = "save_write" =>
              /\ state_file = Missing
              /\ backup_file' = backup_file
              /\ save_result' = "True" => state_file' = to_dict(game_state)
       /\ (pc' = "save_write" /\ pc # "save_write") => pc = "save_rename"
      ]_vars

\* C24 witness: the save of level 2 with a streak of 19 was loaded, one
\* question was answered and saved: the backup holds the loaded save and the
\* primary the new state.
C24_Witness ==
    /\ pc = "question"
    /\ questions = 1
    /\ save_result = "True"
    /\ backup_file = to_dict(GS(2, Rep(TRUE, 19), 90, Rep(TRUE, 19)))
    /\ state_file = to_dict(game_state)
    /\ state_file # backup_file

\* C25 as claimed: an incorrect answer never makes the streak longer, and
\* when the accuracy after the append is still at the threshold the streak
\* is exactly what it was.
C25_Original ==
    [][(Answered /\ ~is_correct') =>
        /\ Len(game_state'.streak_window) <= Len(game_state.streak_window)
        /\ (/\ game_state.current_difficulty < MAX_LEVEL
            /\ AtLeastPercent(WindowAfterAppend,
                   LEVEL_REQUIREMENTS[game_state.current_difficulty].accuracy))
           => game_state'.streak_window = game_state.streak_window
      ]_vars

\* C25 amended: an incorrect answer never makes the streak longer; when the
\* accuracy after the append is still at the threshold the streak is exactly
\* what it was, unless the level-up check fires on that answer, which it
\* does when the unchanged streak already has the level's streak threshold,
\* and then the streak is cleared with the level-up.
C25_IncorrectNeverExtends ==
    [][(Answered /\ ~is_correct') =>
        /\ Len(game_state'.streak_window) <= Len(game_state.streak_window)
        /\ (/\ game_state.current_difficulty < MAX_LEVEL
            /\ AtLeastPercent(WindowAfterAppend,
                   LEVEL_REQUIREMENTS[game_state.current_difficulty].accuracy))
           => IF Len(game_state.streak_window) >=
                     LEVEL_REQUIREMENTS[game_state.current_difficulty].streak
              THEN /\ game_state'.current_difficulty
                          = game_state.current_difficulty + 1
                   /\ game_state'.streak_window = <<>>
              ELSE /\ game_state'.streak_window = game_state.streak_window
                   /\ game_state'.current_difficulty
                          = game_state.current_difficulty
      ]_vars

\* C25 witness: at level 1 with 14 correct outcomes and a streak of 14 an
\* incorrect answer (14 of 15, 93%) has been processed and the streak is
\* still 14.
C25_Witness ==
    /\ pc = "display"
    /\ questions = 1
    /\ ~is_correct
    /\ game_state = GS(1, Rep(TRUE, 14) \o <<FALSE>>, 45, Rep(TRUE, 14))

\* C26: whenever a game state exists, after a fresh start, after a load and
\* after every answer, its difficulty is in 1..MAX_LEVEL; a primary whose
\* record carries a difficulty outside 1..MAX_LEVEL gives load no state.
C26_DifficultyInRange ==
    [][/\ Loaded' => game_state'.current_difficulty \in 1..MAX_LEVEL
       /\ (/\ pc = "load"
           /\ state_file.kind = "json"
           /\ state_file.difficulty \notin 1..MAX_LEVEL) => primary_failed'
      ]_vars

\* C26 witness: the primary carries difficulty 6, load has taken the state
\* of the backup, level 4, and an incorrect answer has been processed at it.
C26_Witness ==
    /\ pc = "display"
    /\ questions = 1
    /\ primary_failed
    /\ state_file.kind = "json"
    /\ state_file.difficulty = 6
    /\ game_state.current_difficulty = 4

\* What load_state gets from the files as the step leaves them.
LoadAfterStep == load_state(state_file', backup_file')

\* The load result r holds the difficulty, the accuracy outcomes and the
\* streak length of gs.
SameProgress(r, gs) ==
    /\ r.found
    /\ r.state.current_difficulty = gs.current_difficulty
    /\ r.state.accuracy_window = gs.accuracy_window
    /\ Len(r.state.streak_window) = Len(gs.streak_window)

\* C27: when save_state has returned True, load_state on the files it left
\* returns a state with the difficulty that was saved, the same outcomes in
\* the accuracy window in the same order, and a streak of the same length.
C27_PersistenceRoundTrip ==
    [][(pc = "save_write" /\ save_result' = "True") =>
           SameProgress(LoadAfterStep, game_state)
      ]_vars

\* C27 witness: level 1 with 14 correct outcomes, one incorrect outcome and
\* a streak of 14 has been saved after the answer.
C27_Witness ==
    /\ pc = "question"
    /\ questions = 1
    /\ save_result = "True"
    /\ game_state = GS(1, Rep(TRUE, 14) \o <<FALSE>>, 45, Rep(TRUE, 14))
    /\ state_file = to_dict(game_state)

\* C28: whenever an answer decrements difficulty, the accuracy window that
\* was evaluated held at least 5 outcomes and at least a third of its
\* capacity (30 for capacity 90); with fewer outcomes difficulty is not
\* decremented, however low the accuracy.
C28_NoLevelDownOnSmallSample ==
    [][(/\ Answered
        /\ game_state'.current_difficulty < game_state.current_difficulty)
       => (/\ Len(WindowAfterAppend) >= 5
           /\ 3 * Len(WindowAfterAppend) >= game_state.maxlen
           /\ (game_state.maxlen = 90 => Len(WindowAfterAppend) >= 30))
      ]_vars

\* C28 witness: level 2 with 28 incorrect outcomes was loaded and a further
\* incorrect answer, the 29th outcome at accuracy 0, has left difficulty 2.
C28_Witness ==
    /\ pc = "save_rename"
    /\ questions = 1
    /\ ~is_correct
    /\ state_file = to_dict(GS(2, Rep(FALSE, 28), 90, <<>>))
    /\ game_state = GS(2, Rep(FALSE, 29), 90, <<>>)

\* check_level_progress returns True on the answer of the step.
LevelUpFired == check_level_progress(game_state, is_correct').result

\* C29: one answered question changes difficulty by at most one level, and
\* when the level-up fired on it the difficulty afterwards is one level
\* higher: the level-down check of the same question does not lower it.
C29_AtMostOneLevel ==
    [][Answered =>
        /\ game_state'.current_difficulty - game_state.current_difficulty
               \in {-1, 0, 1}
        /\ LevelUpFired =>
               game_state'.current_difficulty
                   = game_state.current_difficulty + 1
      ]_vars

\* C29 witness: the level-up fired on an incorrect answer (the save loaded
\* as level 1 held a streak of 19), the level-down check ran on the emptied
\* window and difficulty is 2.
C29_Witness ==
    /\ pc = "save_rename"
    /\ questions = 1
    /\ ~is_correct
    /\ state_file = [to_dict(GS(2, Rep(TRUE, 19), 90, Rep(TRUE, 19)))
                         EXCEPT !.difficulty = 1]
    /\ game_state = GS(2, <<>>, 90, <<>>)

\* C30: the accuracy window never holds more outcomes than its capacity; an
\* answer processed below MAX_LEVEL that changes no level puts its outcome
\* at the newest end and, exactly when the window was full, drops the oldest
\* outcome, the others keeping their order.
C30_BoundedFifo ==
    [][/\ Loaded' => Len(game_state'.accuracy_window) <= game_state'.maxlen
       /\ (/\ Answered
           /\ game_state.current_difficulty < MAX_LEVEL
           /\ game_state'.current_difficulty = game_state.current_difficulty)
          => game_state'.accuracy_window =
                 IF Len(game_state.accuracy_window) = game_state.maxlen
                 THEN Append(Tail(game_state.accuracy_window), is_correct')
                 ELSE Append(game_state.accuracy_window, is_correct')
      ]_vars

\* C30 witness: the full level-1 window of 12 incorrect and 33 correct
\* outcomes has taken a correct answer: the oldest outcome is gone and the
\* window still holds 45.
C30_Witness ==
    /\ pc = "save_rename"
    /\ questions = 1
    /\ is_correct
    /\ state_file = to_dict(GS(1, Rep(FALSE, 12) \o Rep(TRUE, 33), 45, <<>>))
    /\ game_state = GS(1, Rep(FALSE, 11) \o Rep(TRUE, 34), 45, <<TRUE>>)

\* C31: a sequence encoded and decoded with a capacity of at least 1 and
\* below its length comes back as its last capacity entries, in order.
C31_DecodeKeepsNewest ==
    codec_pc = "decoded_smaller" =>
        /\ capacity >= 1 /\ capacity < Len(window_data)
        /\ decoded.ok
        /\ Len(decoded.value) = capacity
        /\ \A i \in 1..capacity :
               decoded.value[i] = window_data[Len(window_data) - capacity + i]

\* C31 witness: 500 entries, every third one true, have been decoded with
\* capacity 90: entries 411 to 500 are left.
C31_Witness ==
    /\ codec_pc = "decoded_smaller"
    /\ Len(window_data) = 500
    /\ window_data[3]
    /\ capacity = 90
    /\ decoded.ok
    /\ decoded.value = SubSeq(window_data, 411, 500)

\* The save that a cancelled question started is running.
CancelSaveRuns ==
    /\ choice \in {<<113>>, <<81>>}
    /\ save_ret = "menu"
    /\ (pc = "save_rename" \/ pc = "save_write")

\* C32: q or Q at a question prompt leaves the game state as it was before
\* the question, calls save_state with that state, and when save_state
\* returns, control is at the main menu with the state still unchanged; the
\* program has not ended.
C32_CancelKeepsState ==
    [][/\ (pc = "question" /\ choice' \in {<<113>>, <<81>>})
          => /\ game_state' = game_state
             /\ questions' = questions
             /\ pc' = "save_rename"
             /\ save_ret' = "menu"
       /\ CancelSaveRuns
          => /\ game_state' = game_state
             /\ pc' \in {"save_write", "menu"}
             /\ (pc' = "menu" /\ save_result' = "True")
                    => state_file' = to_dict(game_state)
      ]_vars

\* C32 witness: Q was typed at the first question after a load of level 3
\* with a streak of 29; the save has returned True and control is at the
\* menu with the loaded state.
C32_Witness ==
    /\ pc = "menu"
    /\ choice = <<81>>
    /\ questions = 0
    /\ save_result = "True"
    /\ game_state = GS(3, Rep(TRUE, 29), 90, Rep(TRUE, 29))
    /\ state_file = to_dict(game_state)
    /\ backup_file = state_file

\* C33: after every question, the run that was saved and loaded again
\* between questions has the difficulty, the accuracy outcomes and the
\* streak length of the run that stayed in memory.
C33_RestartTransparency ==
    pc = "between" =>
        /\ restarted.current_difficulty = game_state.current_difficulty
        /\ restarted.accuracy_window = game_state.accuracy_window
        /\ Len(restarted.streak_window) = Len(game_state.streak_window)

\* C34: once a save has succeeded, whatever failures of the rename or of
\* the write follow and wherever the process stops, the primary or the
\* backup file holds a save that _try_load_file accepts.
C34_SaveRedundancy ==
    save_completed =>
        \/ try_load_file(state_file).found
        \/ try_load_file(backup_file).found

\* The streak of gs is below the streak threshold of its level and within
\* the capacity from_dict decodes it with.
StreakBelowThreshold(gs) ==
    gs.current_difficulty < MAX_LEVEL =>
        /\ Len(gs.streak_window)
               < LEVEL_REQUIREMENTS[gs.current_difficulty].streak
        /\ Len(gs.streak_window)
               <= LEVEL_REQUIREMENTS[gs.current_difficulty].window

\* C35: in the runs from a fresh state, with saves and loads between the
\* questions, the streak below MAX_LEVEL is shorter than the streak
\* threshold of the level after every question, so it fits the capacity it
\* is decoded with, and a load returns it whole.
C35_StreakBelowThreshold ==
    [][/\ StreakBelowThreshold(game_state')
       /\ StreakBelowThreshold(restarted')
       /\ (pc = "left" /\ pc' = "between")
              => restarted'.streak_window = restarted.streak_window
      ]_vars

\* C35 witness: after 34 correct answers from the fresh state the second
\* run, at level 2 with a streak of 19, has been saved and loaded again with
\* its 19 entries.
C35_Witness ==
    /\ pc = "between"
    /\ questions = 0
    /\ save_result = "True"
    /\ state_file = to_dict(restarted)
    /\ restarted = GS(2, Rep(TRUE, 19), 90, Rep(TRUE, 19))

\* C36 as claimed: no incorrect answer raises difficulty and no correct
\* answer lowers it.
C36_Original ==
    [][Answered =>
        /\ game_state'.current_difficulty > game_state.current_difficulty
               => is_correct'
        /\ game_state'.current_difficulty < game_state.current_difficulty
               => ~is_correct'
      ]_vars

\* C36 amended: no correct answer lowers difficulty, and an incorrect answer
\* raises it only when the streak held streak_threshold entries already
\* before the question and the accuracy after the answer is still at the
\* threshold.
C36_LevelChangeMatchesAnswer ==
    [][Answered =>
        /\ game_state'.current_difficulty < game_state.current_difficulty
               => ~is_correct'
        /\ game_state'.current_difficulty > game_state.current_difficulty
               => \/ is_correct'
                  \/ /\ Len(game_state.streak_window) >=
                            LEVEL_REQUIREMENTS[game_state.current_difficulty].streak
                     /\ AtLeastPercent(WindowAfterAppend,
                            LEVEL_REQUIREMENTS[game_state.current_difficulty].accuracy)
      ]_vars

\* C36 witness: the save loaded as level 1 with a streak of 19 took an
\* incorrect answer, difficulty went to 2 and the new state has been saved
\* over it.
C36_Witness ==
    /\ pc = "question"
    /\ questions = 1
    /\ ~is_correct
    /\ save_result = "True"
    /\ backup_file = [to_dict(GS(2, Rep(TRUE, 19), 90, Rep(TRUE, 19)))
                          EXCEPT !.difficulty = 1]
    /\ game_state = GS(2, <<>>, 90, <<>>)
    /\ state_file = to_dict(game_state)

====
